---- MODULE Spec2Model ----
(***************************************************************************)
(* A model of MeshVertexPicker (src/main.py): the selection state machine, *)
(* the red selection markers it keeps in the plotter, the overlay text and *)
(* the clipboard export.                                                   *)
(*                                                                         *)
(* Coordinates are integers in units of 1e-6.  The renderer (pyvista) and  *)
(* the clipboard (pyperclip) are external: each call to them is counted,   *)
(* and an event's input failAt names the call of the handler that raises   *)
(* (0: none does).  Failures are injected where the code expects them, in  *)
(* the two handlers that have a try/except.                                *)
(***************************************************************************)
EXTENDS Integers, Sequences, FiniteSets, TLC

\* Number of vertices of the mesh of Spec.
NVerts == 3
\* Number of vertices of the mesh of TextSpec (more than MAX_DISPLAY_COUNT).
TextVerts == 22
\* Renderer calls that may raise in one run of FailSpec.
MaxFailures == 1
\* Number of vertices of the mesh of ScenarioSpec.
ScenarioVerts == 8
\* Most vertices of a mesh file of StartupSpec.
StartVerts == 2
\* main.py:167
MAX_DISPLAY_COUNT == 20

VARIABLES
    mesh,                    \* self._mesh.points: vertex id -> position
    selected_points,         \* self._selected_points
    selected_point_actors,   \* self._selected_point_actors
    multi_select_mode,       \* self._multi_select_mode
    text_actor,              \* self._text_actor
    plotter,                 \* the actors in self._plotter's scene
    clipboard,               \* the system clipboard (lines of text)
    console,                 \* what the last event printed
    last,                    \* the last event and its inputs
    failures,                \* renderer calls that have raised so far
    script,                  \* the scripted session's progress (ScenarioSpec)
    proc                     \* the process: where main is, its exit status

vars == <<mesh, selected_points, selected_point_actors, multi_select_mode,
          text_actor, plotter, clipboard, console, last, failures, script, proc>>

Min(a, b) == IF a < b THEN a ELSE b
Range(s) == {s[i] : i \in DOMAIN s}

-----------------------------------------------------------------------------
(* The mesh and the nearest-vertex lookup *)

\* Vertex positions, 0-indexed as numpy's.  x is never a rounding tie at 5
\* decimals and rounds up, y is never a tie and is a negative value that
\* rounds to zero for vertex 1, z is 2^-6: a tie, and exact in binary.
MeshPoints(n) == [i \in 0..(n - 1) |-> <<1000 * i + 7, 4 - 8 * i, 15625>>]

\* A point the lookup resolves to no vertex.
Unresolvable == <<-1000000, -1000000, -1000000>>

\* A click next to vertex i.
Near(msh, i) == <<msh[i][1] + 1, msh[i][2] + 1, msh[i][3]>>

\* A click at equal distance from vertices 0 and 1, the nearest two.
Between01 == <<507, 0, 15625>>

\* The click that selects vertex i.
ClickFor(msh, i) == IF i <= 1 THEN Between01 ELSE Near(msh, i)

\* The 3D points a click can deliver: the one between vertices 0 and 1, one
\* next to each other vertex, and one that resolves to no vertex.
PickPoints(msh) == {ClickFor(msh, i) : i \in DOMAIN msh} \cup {Unresolvable}

Dist2(a, b) ==
    (a[1] - b[1]) * (a[1] - b[1]) + (a[2] - b[2]) * (a[2] - b[2])
        + (a[3] - b[3]) * (a[3] - b[3])

\* The results self._mesh.find_closest_point(p) can give: a vertex at minimal
\* Euclidean distance (which one of several is the library's choice), or -1.
find_closest_point(msh, p) ==
    IF p = Unresolvable THEN {-1}
    ELSE {i \in DOMAIN msh : \A j \in DOMAIN msh : Dist2(msh[i], p) <= Dist2(msh[j], p)}

-----------------------------------------------------------------------------
(* Text formatting *)

\* n >= 0 as a decimal of at least 5 digits, zero-padded on the left.
Pad5(n) ==
    (IF n < 10 THEN "0000" ELSE IF n < 100 THEN "000" ELSE IF n < 1000 THEN "00"
     ELSE IF n < 10000 THEN "0" ELSE "") \o ToString(n)

\* f'{c:.5f}' of the coordinate c * 1e-6: rounded to 5 decimals, ties to even;
\* a negative value keeps its sign even when it rounds to zero.
Fmt5(c) ==
    LET a == IF c < 0 THEN -c ELSE c
        q == a \div 10
        r == a % 10
        u == IF r > 5 \/ (r = 5 /\ q % 2 = 1) THEN q + 1 ELSE q
    IN  (IF c < 0 THEN "-" ELSE "") \o ToString(u \div 100000) \o "." \o Pad5(u % 100000)

\* 'ID: {vertex_id}, Pos: (x, y, z)' shared by the two entry formats.
EntryBody(sp) ==
    "ID: " \o ToString(sp.vertex_id) \o ", Pos: (" \o Fmt5(sp.vertex_pos[1]) \o ", "
        \o Fmt5(sp.vertex_pos[2]) \o ", " \o Fmt5(sp.vertex_pos[3]) \o ")"

ModeLine(mode) == "Multi-select mode: " \o (IF mode THEN "ON" ELSE "OFF")
OverlayCountLine(n) == "Selected " \o ToString(n) \o " vertices:"
OverlayEntryLine(i, sp) == "  #" \o ToString(i) \o " - " \o EntryBody(sp)
MoreLine(k) == "  (and " \o ToString(k) \o " more...)"
NoneLine == "(No vertices selected)"

\* The overlay's entry lines for records i..n of sp.
RECURSIVE OverlayEntries(_, _, _)
OverlayEntries(sp, i, n) ==
    IF i > n THEN <<>> ELSE <<OverlayEntryLine(i, sp[i])>> \o OverlayEntries(sp, i + 1, n)

\* An overlay loop over every record.
DisplayAll(n) == n

\* for i in range(min(len(self._selected_points), MAX_DISPLAY_COUNT))
OverlayDisplayed(n) == Min(n, MAX_DISPLAY_COUNT)

\* text_content of _update_text_display, as its lines.
TextContent(mode, sp) ==
    <<ModeLine(mode)>> \o
    (IF Len(sp) > 0
     THEN <<OverlayCountLine(Len(sp))>>
              \o OverlayEntries(sp, 1, OverlayDisplayed(Len(sp)))
              \o (IF Len(sp) > MAX_DISPLAY_COUNT
                  THEN <<MoreLine(Len(sp) - MAX_DISPLAY_COUNT)>> ELSE <<>>)
     ELSE <<NoneLine>>)

ClipCountLine(n) == "Selected " \o ToString(n) \o " vertices"
\* A clipboard entry numbered as enumerate numbers it, from 0.
ClipEntryLineFromZero(i, sp) == "#" \o ToString(i - 1) \o " - " \o EntryBody(sp)
ClipEntryLine(i, sp) == "#" \o ToString(i) \o " - " \o EntryBody(sp)

\* A clipboard loop that stops at the overlay's limit.
DisplayUpToMax(n) == Min(n, MAX_DISPLAY_COUNT)

\* for i, sp in enumerate(self._selected_points)
ClipDisplayed(n) == n

\* The clipboard text's entry lines for records i..n of sp.
RECURSIVE ClipEntries(_, _, _)
ClipEntries(sp, i, n) ==
    IF i > n THEN <<>> ELSE <<ClipEntryLine(i, sp[i])>> \o ClipEntries(sp, i + 1, n)

\* vertex_text of _on_copy_selected_vertex_info, as its lines.
VertexText(sp) ==
    <<ClipCountLine(Len(sp))>> \o ClipEntries(sp, 1, ClipDisplayed(Len(sp)))

-----------------------------------------------------------------------------
(* The running handler: the object's fields, the scene, the clipboard, what *)
(* was printed, the external calls made so far and the pending exception.   *)

\* self._text_actor = None
None == [h |-> -1, text |-> <<>>]

\* The fields as __init__ sets them (lines 21-26), before the first overlay.
Constructed ==
    [sp |-> <<>>, spa |-> <<>>, mode |-> FALSE, ta |-> None,
     plotter |-> [points |-> {}, texts |-> {}],
     clip |-> <<>>, out |-> <<>>, calls |-> 0, failAt |-> 0, exc |-> FALSE]

\* A call into pyvista or pyperclip: the failAt-th call of the handler raises.
Call(m) == [m EXCEPT !.calls = @ + 1, !.exc = (m.calls + 1 = m.failAt)]

\* print(...)
print(m, line) == [m EXCEPT !.out = Append(@, line)]

\* The identity of a newly created object: the least one no live object has.
NewHandle(used) ==
    CHOOSE h \in 0..Cardinality(used) : h \notin used /\ \A k \in 0..(h - 1) : k \in used

\* A remove_actor that leaves the marker in the scene.
remove_actor_kept(m, a) == IF m.exc THEN m ELSE Call(m)

\* self._plotter.remove_actor(actor), for a marker; removing an actor that is
\* not in the scene changes nothing.
remove_actor(m, a) ==
    IF m.exc THEN m
    ELSE LET c == Call(m)
         IN  IF c.exc THEN c ELSE [c EXCEPT !.plotter.points = @ \ {a}]

\* self._plotter.remove_actor(self._text_actor)
remove_text_actor(m, a) ==
    IF m.exc THEN m
    ELSE LET c == Call(m)
         IN  IF c.exc THEN c ELSE [c EXCEPT !.plotter.texts = @ \ {a}]

\* actor = self._plotter.add_points(pos, color='red', ...);
\* self._selected_point_actors.append(actor)
add_points_append(m, pos) ==
    IF m.exc THEN m
    ELSE LET c == Call(m)
             a == [h |-> NewHandle({x.h : x \in m.plotter.points \cup Range(m.spa)}),
                   pos |-> pos]
         IN  IF c.exc THEN c
             ELSE [c EXCEPT !.plotter.points = @ \cup {a}, !.spa = Append(@, a)]

\* self._text_actor = self._plotter.add_text(text_content, ...)
add_text_assign(m, text) ==
    IF m.exc THEN m
    ELSE LET c == Call(m)
             a == [h |-> NewHandle({x.h : x \in m.plotter.texts \cup {m.ta}} \ {-1}),
                   text |-> text]
         IN  IF c.exc THEN c
             ELSE [c EXCEPT !.plotter.texts = @ \cup {a}, !.ta = a]

\* A _select_vertex that records the clicked point as the vertex position.
select_vertex_at_click(m, vertex_id, picked_point, vertex_pos) ==
    IF m.exc THEN m
    ELSE add_points_append(
             [m EXCEPT !.sp = Append(@, [vertex_id |-> vertex_id,
                                         picked_point |-> picked_point,
                                         vertex_pos |-> picked_point])],
             vertex_pos)

\* A _select_vertex that inserts the new record first.
select_vertex_first(m, vertex_id, picked_point, vertex_pos) ==
    IF m.exc THEN m
    ELSE add_points_append(
             [m EXCEPT !.sp = <<[vertex_id |-> vertex_id,
                                picked_point |-> picked_point,
                                vertex_pos |-> vertex_pos]>> \o @],
             vertex_pos)

\* _select_vertex
select_vertex(m, vertex_id, picked_point, vertex_pos) ==
    IF m.exc THEN m
    ELSE add_points_append(
             [m EXCEPT !.sp = Append(@, [vertex_id |-> vertex_id,
                                         picked_point |-> picked_point,
                                         vertex_pos |-> vertex_pos])],
             vertex_pos)

\* for actor in self._selected_point_actors: self._plotter.remove_actor(actor)
RECURSIVE RemoveActors(_, _, _)
RemoveActors(m, actors, i) ==
    IF m.exc \/ i > Len(actors) THEN m
    ELSE RemoveActors(remove_actor(m, actors[i]), actors, i + 1)

\* A _clear_selected_vertices that forgets the records' list.
clear_actors_only(m) ==
    IF m.exc THEN m
    ELSE LET c == RemoveActors(m, m.spa, 1)
         IN  IF c.exc THEN c ELSE [c EXCEPT !.spa = <<>>]

\* _clear_selected_vertices
clear_selected_vertices(m) ==
    IF m.exc THEN m
    ELSE LET c == RemoveActors(m, m.spa, 1)
         IN  IF c.exc THEN c ELSE [c EXCEPT !.spa = <<>>, !.sp = <<>>]

\* for sp in self._selected_points: add_points(sp['vertex_pos']); append
RECURSIVE RebuildActors(_, _)
RebuildActors(m, i) ==
    IF m.exc \/ i > Len(m.sp) THEN m
    ELSE RebuildActors(add_points_append(m, m.sp[i].vertex_pos), i + 1)

\* A filter that keeps the records it should drop.
OnlyThat(sp, vertex_id) == SelectSeq(sp, LAMBDA r : r.vertex_id = vertex_id)

\* [sp for sp in old_selected_points if sp['vertex_id'] != vertex_id]
Without(sp, vertex_id) == SelectSeq(sp, LAMBDA r : r.vertex_id # vertex_id)

\* A _deselect_vertex that stops after its call of _clear_selected_vertices.
deselect_all(m, vertex_id) == clear_selected_vertices(m)

\* _deselect_vertex
deselect_vertex(m, vertex_id) ==
    IF m.exc THEN m
    ELSE LET old_selected_points == m.sp
             new_selected_points == Without(old_selected_points, vertex_id)
         IN  IF Len(new_selected_points) < Len(old_selected_points)
             THEN LET c == clear_selected_vertices(m)
                  IN  IF c.exc THEN c
                      ELSE RebuildActors([c EXCEPT !.sp = new_selected_points], 1)
             ELSE m

\* An _update_text_display that does not remove the previous text.
add_text_over_previous(m) ==
    IF m.exc THEN m ELSE add_text_assign(m, TextContent(m.mode, m.sp))

\* _update_text_display
update_text_display(m) ==
    IF m.exc THEN m
    ELSE LET text_content == TextContent(m.mode, m.sp)
             r == IF m.ta # None THEN remove_text_actor(m, m.ta) ELSE m
         IN  add_text_assign(r, text_content)

\* An _on_toggle_multi_select that keeps one record when switching off.
toggle_collapsing(m) ==
    LET t == [m EXCEPT !.mode = ~m.mode,
                       !.sp = IF m.mode /\ Len(@) > 1 THEN <<@[Len(@)]>> ELSE @]
    IN  update_text_display(print(t, ModeLine(t.mode)))

\* _on_toggle_multi_select
on_toggle_multi_select(m) ==
    LET t == [m EXCEPT !.mode = ~m.mode]
    IN  update_text_display(print(t, ModeLine(t.mode)))

\* _on_clear_selected_vertices
on_clear_selected_vertices(m) ==
    update_text_display(clear_selected_vertices(m))

\* A clipboard write with no try/except around it.
copy_uncaught(m, vertex_text) ==
    LET c == Call(m)
    IN  IF c.exc THEN c
        ELSE print([c EXCEPT !.clip = vertex_text],
                   "Copied " \o ToString(Len(m.sp)) \o " vertex info(s) to clipboard.")

\* try: pyperclip.copy(vertex_text); print(...) except Exception: print(...)
copy_to_clipboard(m, vertex_text) ==
    LET c == Call(m)
    IN  IF c.exc
        THEN [c EXCEPT !.exc = FALSE,
                       !.out = @ \o <<"Failed to copy to clipboard: ">> \o vertex_text]
        ELSE print([c EXCEPT !.clip = vertex_text],
                    "Copied " \o ToString(Len(m.sp)) \o " vertex info(s) to clipboard.")

\* A copy handler that empties the selection once it is copied.
copy_and_clear(m) ==
    IF m.sp = <<>>
    THEN print(m, "No vertices selected to copy.")
    ELSE clear_selected_vertices(copy_to_clipboard(m, VertexText(m.sp)))

\* A copy handler without the early return of an empty selection.
copy_unguarded(m) == copy_to_clipboard(m, VertexText(m.sp))

\* _on_copy_selected_vertex_info
on_copy_selected_vertex_info(m) ==
    IF m.sp = <<>>
    THEN print(m, "No vertices selected to copy.")
    ELSE copy_to_clipboard(m, VertexText(m.sp))

\* An already_selected that looks at the first record only.
first_selected(sp, vertex_id) == sp # <<>> /\ sp[1].vertex_id = vertex_id

\* A single-select replace that keeps the previous records.
keep_previous(m) == m

\* if not self._multi_select_mode: self._clear_selected_vertices()
clear_unless_multi(m) == IF ~m.mode THEN clear_selected_vertices(m) ELSE m

\* already_selected = any(sp['vertex_id'] == vertex_id for sp in ...)
already_selected(sp, vertex_id) == \E i \in DOMAIN sp : sp[i].vertex_id = vertex_id

\* A pick handler that empties a single selection before it looks at what the
\* lookup gave.
pick_clearing_first(m, msh, picked_point, vertex_id) ==
    LET c == clear_unless_multi(Call(m))
    IN  IF vertex_id = -1
        THEN print(c, "No vertex found close to the picked point.")
        ELSE IF already_selected(c.sp, vertex_id)
        THEN update_text_display(deselect_vertex(c, vertex_id))
        ELSE update_text_display(select_vertex(c, vertex_id, picked_point, msh[vertex_id]))

\* The body of _on_pick_point's try block, the lookup having given vertex_id.
pick_point_body(m, msh, picked_point, vertex_id) ==
    LET c == Call(m)
    IN  IF c.exc THEN c
        ELSE IF vertex_id = -1
        THEN print(c, "No vertex found close to the picked point.")
        ELSE IF vertex_id \notin DOMAIN msh
        THEN [c EXCEPT !.exc = TRUE]
        ELSE LET vertex_pos == msh[vertex_id]
                 s == IF already_selected(c.sp, vertex_id)
                      THEN deselect_vertex(c, vertex_id)
                      ELSE select_vertex(clear_unless_multi(c),
                                         vertex_id, picked_point, vertex_pos)
             IN  update_text_display(s)

\* except Exception as e: print(f'Error occurred during point selection: {e}')
catch_pick_error(m) ==
    IF m.exc
    THEN print([m EXCEPT !.exc = FALSE], "Error occurred during point selection: ")
    ELSE m

\* _on_pick_point
on_pick_point(m, msh, picked_point, vertex_id) ==
    catch_pick_error(pick_point_body(m, msh, picked_point, vertex_id))

-----------------------------------------------------------------------------
(* The events *)

\* The handler's view of the state when an event arrives.
Machine(failAt) ==
    [sp |-> selected_points, spa |-> selected_point_actors,
     mode |-> multi_select_mode, ta |-> text_actor, plotter |-> plotter,
     clip |-> clipboard, out |-> <<>>, calls |-> 0, failAt |-> failAt, exc |-> FALSE]

\* The state the handler leaves, and the record of the event: its kind, the
\* vertex the lookup gave (pick), the call that raised, the length of
\* Selection before it (n) and whether an exception left the handler.
Handled(r, ev, vid) ==
    /\ selected_points' = r.sp
    /\ selected_point_actors' = r.spa
    /\ multi_select_mode' = r.mode
    /\ text_actor' = r.ta
    /\ plotter' = r.plotter
    /\ clipboard' = r.clip
    /\ console' = r.out
    /\ last' = [ev |-> ev, vid |-> vid, failAt |-> r.failAt,
                n |-> Len(selected_points), escaped |-> r.exc]
    /\ failures' = failures + (IF ev = "pick" /\ r.failAt > 0 THEN 1 ELSE 0)
    /\ mesh' = mesh
    /\ proc' = proc

\* No scripted session: its step count, and the two vertices it picks.
NoScript == [k |-> 0, a |-> -1, b |-> -1]

\* An event of a free session.
Commit(r, ev, vid) == Handled(r, ev, vid) /\ script' = script

\* A mesh file: whether the path exists, whether pv.read returns, and the
\* number of points of the mesh it gives.
MeshFile(exists, reads, n_points) ==
    [exists |-> exists, reads |-> reads, n_points |-> n_points]

\* main is inside self._plotter.show(): the window is shown, no exit status
\* yet (-1), nothing on stderr.
Showing(file) == [pc |-> "shown", status |-> -1, err |-> <<>>, file |-> file]

\* The state after __init__: the fields of lines 21-26 and the first overlay.
Started(msh, r) ==
    /\ mesh = msh
    /\ selected_points = r.sp
    /\ selected_point_actors = r.spa
    /\ multi_select_mode = r.mode
    /\ text_actor = r.ta
    /\ plotter = r.plotter
    /\ clipboard = r.clip
    /\ console = <<>>
    /\ last = [ev |-> "init", vid |-> -1, failAt |-> 0, n |-> 0, escaped |-> FALSE]
    /\ failures = 0
    /\ script = NoScript
    /\ proc = Showing(MeshFile(TRUE, TRUE, Cardinality(DOMAIN msh)))

Init == Started(MeshPoints(NVerts), update_text_display(Constructed))

\* A pick event: the renderer calls _on_pick_point(picked_point); every
\* call the handler makes returns.
OnPick ==
    \E picked_point \in PickPoints(mesh) :
    \E vertex_id \in find_closest_point(mesh, picked_point) :
        Commit(on_pick_point(Machine(0), mesh, picked_point, vertex_id), "pick", vertex_id)

\* A pick event in which the failAt-th call of the handler raises.
OnPickFail ==
    /\ failures < MaxFailures
    /\ \E picked_point \in PickPoints(mesh) :
       \E vertex_id \in find_closest_point(mesh, picked_point) :
       \E failAt \in 1..(2 * Len(selected_points) + 3) :
           LET r == on_pick_point(Machine(failAt), mesh, picked_point, vertex_id)
           IN  r.calls >= failAt /\ Commit(r, "pick", vertex_id)

\* Key 'm'.
OnToggle == Commit(on_toggle_multi_select(Machine(0)), "toggle", -1)

\* Key 'r'.
OnClear == Commit(on_clear_selected_vertices(Machine(0)), "clear", -1)

\* Key 'c'; the clipboard write returns.
OnCopy == Commit(on_copy_selected_vertex_info(Machine(0)), "copy", -1)

\* Key 'c'; the clipboard write, the handler's one external call, raises.
OnCopyFail ==
    LET r == on_copy_selected_vertex_info(Machine(1))
    IN  r.calls >= 1 /\ Commit(r, "copy", -1)

Next == OnPick \/ OnToggle \/ OnClear \/ OnCopy \/ OnCopyFail

Spec == Init /\ [][Next]_vars

\* The same events, and pick events in which a call raises.
FailNext == OnPick \/ OnPickFail \/ OnToggle \/ OnClear \/ OnCopy \/ OnCopyFail

FailSpec == Init /\ [][FailNext]_vars

-----------------------------------------------------------------------------
(* The process, from the command line to its exit status *)

\* An __init__ that does not look at the number of points.
load_error_unvalidated(file) ==
    IF ~file.exists THEN "OBJ file not found"
    ELSE IF ~file.reads THEN "Error occurred while loading OBJ file"
    ELSE ""

\* The exception __init__'s loading block raises (lines 29-47), "" if none.
load_error(file) ==
    IF ~file.exists THEN "OBJ file not found"
    ELSE IF ~file.reads THEN "Error occurred while loading OBJ file"
    ELSE IF file.n_points = 0 THEN "Mesh has no valid points."
    ELSE ""

\* sys.exit(code): the status the parent sees.
exit_status(code) == code % 256

\* Before main runs: nothing constructed, and the mesh file main is given.
StartupInit ==
    /\ mesh = MeshPoints(0)
    /\ selected_points = <<>>
    /\ selected_point_actors = <<>>
    /\ multi_select_mode = FALSE
    /\ text_actor = None
    /\ plotter = [points |-> {}, texts |-> {}]
    /\ clipboard = <<>>
    /\ console = <<>>
    /\ last = [ev |-> "init", vid |-> -1, failAt |-> 0, n |-> 0, escaped |-> FALSE]
    /\ failures = 0
    /\ script = NoScript
    /\ \E exists \in BOOLEAN, reads \in BOOLEAN, n_points \in 0..StartVerts :
           proc = [pc |-> "start", status |-> -1, err |-> <<>>,
                   file |-> MeshFile(exists, reads, n_points)]

\* main: picker = MeshVertexPicker(obj_file_path).  The exception of a failed
\* load leaves main uncaught: the interpreter prints it and exits with 1.
Launch ==
    /\ proc.pc = "start"
    /\ IF load_error(proc.file) # ""
       THEN /\ proc' = [proc EXCEPT !.pc = "exited", !.status = exit_status(1),
                                    !.err = <<"Exception: Error loading mesh: "
                                              \o load_error(proc.file)>>]
            /\ UNCHANGED <<mesh, selected_points, selected_point_actors,
                           multi_select_mode, text_actor, plotter, clipboard,
                           console, last, failures, script>>
       ELSE LET r == update_text_display(Constructed)
            IN  /\ mesh' = MeshPoints(proc.file.n_points)
                /\ selected_points' = r.sp
                /\ selected_point_actors' = r.spa
                /\ multi_select_mode' = r.mode
                /\ text_actor' = r.ta
                /\ plotter' = r.plotter
                /\ proc' = Showing(proc.file)
                /\ UNCHANGED <<clipboard, console, last, failures, script>>

\* The window is closed: show returns True and main's result is exit code 0.
CloseWindow ==
    /\ proc.pc = "shown"
    /\ proc' = [proc EXCEPT !.pc = "exited", !.status = exit_status(0)]
    /\ UNCHANGED <<mesh, selected_points, selected_point_actors, multi_select_mode,
                   text_actor, plotter, clipboard, console, last, failures, script>>

\* self._plotter.show() raises: show prints it and returns False, exit code -1.
ShowRaises ==
    /\ proc.pc = "shown"
    /\ proc' = [proc EXCEPT !.pc = "exited", !.status = exit_status(-1)]
    /\ console' = <<"Exception: ">>
    /\ UNCHANGED <<mesh, selected_points, selected_point_actors, multi_select_mode,
                   text_actor, plotter, clipboard, last, failures, script>>

\* The events the shown window dispatches.
WindowEvent == proc.pc = "shown" /\ (OnPick \/ OnToggle \/ OnClear \/ OnCopy \/ OnCopyFail)

StartupNext == Launch \/ WindowEvent \/ CloseWindow \/ ShowRaises

StartupSpec == StartupInit /\ [][StartupNext]_vars

-----------------------------------------------------------------------------
(* The scripted session: pick a vertex a, switch multi-select on, pick     *)
(* another vertex b, pick a again, clear.                                  *)

\* A pick event that resolves to vertex v.
PickOf(v) ==
    \E picked_point \in PickPoints(mesh) :
        /\ v \in find_closest_point(mesh, picked_point)
        /\ Handled(on_pick_point(Machine(0), mesh, picked_point, v), "pick", v)

ScenarioInit == Started(MeshPoints(ScenarioVerts), update_text_display(Constructed))

ClickA ==
    /\ script.k = 0
    /\ \E a \in DOMAIN mesh : PickOf(a) /\ script' = [k |-> 1, a |-> a, b |-> -1]

EnableMulti ==
    /\ script.k = 1
    /\ Handled(on_toggle_multi_select(Machine(0)), "toggle", -1)
    /\ script' = [script EXCEPT !.k = 2]

ClickB ==
    /\ script.k = 2
    /\ \E b \in DOMAIN mesh \ {script.a} :
           PickOf(b) /\ script' = [script EXCEPT !.k = 3, !.b = b]

ClickAAgain ==
    /\ script.k = 3
    /\ PickOf(script.a)
    /\ script' = [script EXCEPT !.k = 4]

ClearAll ==
    /\ script.k = 4
    /\ Handled(on_clear_selected_vertices(Machine(0)), "clear", -1)
    /\ script' = [script EXCEPT !.k = 5]

ScenarioNext == ClickA \/ EnableMulti \/ ClickB \/ ClickAAgain \/ ClearAll

ScenarioSpec == ScenarioInit /\ [][ScenarioNext]_vars

-----------------------------------------------------------------------------
(* The presenter on long selections: from the states reached by switching *)
(* multi-select on and picking n vertices in a row, the key events.       *)

\* Vertices start, start + step, ... (n of them, modulo the mesh size).
Run(size, start, step, n) == [i \in 1..n |-> (start + (i - 1) * step) % size]

\* What picking the vertices ids in a row leaves, multi-select being on:
\* one record and one marker each, in order (_select_vertex), and the
\* overlay of the final state (_update_text_display).
Picked(msh, ids, mode) ==
    LET sp == [i \in DOMAIN ids |-> [vertex_id |-> ids[i],
                                     picked_point |-> ClickFor(msh, ids[i]),
                                     vertex_pos |-> msh[ids[i]]]]
        spa == [i \in DOMAIN ids |-> [h |-> i - 1, pos |-> msh[ids[i]]]]
        ta == [h |-> 0, text |-> TextContent(mode, sp)]
    IN  [Constructed EXCEPT !.sp = sp, !.spa = spa, !.mode = mode, !.ta = ta,
                            !.plotter = [points |-> Range(spa), texts |-> {ta}]]

TextInit ==
    \E n \in 0..TextVerts, start \in 0..(TextVerts - 1), step \in {1, TextVerts - 1},
       mode \in BOOLEAN :
        Started(MeshPoints(TextVerts),
                Picked(MeshPoints(TextVerts), Run(TextVerts, start, step, n), mode))

TextNext == OnToggle \/ OnClear \/ OnCopy \/ OnCopyFail

TextSpec == TextInit /\ [][TextNext]_vars

-----------------------------------------------------------------------------
(* The selection state machine's contract *)

\* Whether a record of sp has vertex id v.
InSel(sp, v) == \E i \in DOMAIN sp : sp[i].vertex_id = v

\* The event just handled is a pick that resolved to a vertex, no call raising.
PickedVertex == last'.ev = "pick" /\ last'.failAt = 0 /\ last'.vid # -1

\* r is a record of vertex v, made from a click that resolves to v.
RecordOf(r, v) ==
    /\ r.vertex_id = v
    /\ r.vertex_pos = mesh[v]
    /\ v \in find_closest_point(mesh, r.picked_point)

\* C1: with multi-select off, a pick that resolves to a vertex v not in
\* Selection leaves Selection equal to the one-record sequence [v], whatever
\* it held before.
C1_SingleSelectReplaces ==
    [][(PickedVertex /\ ~multi_select_mode /\ ~InSel(selected_points, last'.vid))
         => /\ Len(selected_points') = 1
            /\ RecordOf(selected_points'[1], last'.vid)]_vars

\* A single-select pick of a new vertex has replaced several records.
C1_Witness ==
    /\ last.ev = "pick" /\ last.failAt = 0 /\ last.n >= 2
    /\ ~multi_select_mode
    /\ Len(selected_points) = 1
    /\ selected_points[1].vertex_id = last.vid

\* C2: with multi-select on, a pick that resolves to a vertex v not in
\* Selection keeps every prior record in its place and appends v's record as
\* the last element.
C2_MultiSelectAppends ==
    [][(PickedVertex /\ multi_select_mode /\ ~InSel(selected_points, last'.vid))
         => /\ Len(selected_points') = Len(selected_points) + 1
            /\ SubSeq(selected_points', 1, Len(selected_points)) = selected_points
            /\ RecordOf(selected_points'[Len(selected_points')], last'.vid)]_vars

\* A multi-select pick has added a record after two others.
C2_Witness ==
    /\ last.ev = "pick" /\ last.failAt = 0 /\ last.n >= 2
    /\ multi_select_mode
    /\ Len(selected_points) = last.n + 1
    /\ selected_points[Len(selected_points)].vertex_id = last.vid

\* C3: in either mode, a pick that resolves to a vertex v already in
\* Selection removes v's record and nothing else: the other records stay, in
\* the same order, and the multi-select flag is unchanged.
C3_RepickRemovesOnlyThat ==
    [][(PickedVertex /\ InSel(selected_points, last'.vid))
         => /\ \E k \in DOMAIN selected_points :
                  /\ selected_points[k].vertex_id = last'.vid
                  /\ selected_points' = SubSeq(selected_points, 1, k - 1)
                         \o SubSeq(selected_points, k + 1, Len(selected_points))
            /\ ~InSel(selected_points', last'.vid)
            /\ multi_select_mode' = multi_select_mode]_vars

\* With multi-select off, a re-pick has removed one record of several and left
\* the others.
C3_Witness ==
    /\ last.ev = "pick" /\ last.failAt = 0 /\ last.n >= 3
    /\ ~multi_select_mode
    /\ Len(selected_points) = last.n - 1
    /\ ~InSel(selected_points, last.vid)

\* C4: no two records of Selection have the same vertex_id.
C4_VertexIdsUnique ==
    \A i, j \in DOMAIN selected_points :
        selected_points[i].vertex_id = selected_points[j].vertex_id => i = j

\* Selection holds a record for every vertex of the mesh and has just been
\* copied.
C4_Witness ==
    /\ Len(selected_points) = Cardinality(DOMAIN mesh)
    /\ last.ev = "copy"

\* C5: the clear event leaves Selection and the list of marker actors empty
\* and the multi-select flag unchanged, whatever they held.
C5_ClearEmpties ==
    [][last'.ev = "clear"
         => /\ selected_points' = <<>>
            /\ selected_point_actors' = <<>>
            /\ multi_select_mode' = multi_select_mode]_vars

\* Several records have been cleared, multi-select being on.
C5_Witness ==
    /\ last.ev = "clear" /\ last.n >= 2
    /\ multi_select_mode
    /\ selected_points = <<>>

\* C6: the toggle event negates the multi-select flag and leaves Selection
\* and the list of marker actors as they were.
C6_ToggleKeepsSelection ==
    [][last'.ev = "toggle"
         => /\ multi_select_mode' = ~multi_select_mode
            /\ selected_points' = selected_points
            /\ selected_point_actors' = selected_point_actors]_vars

\* Multi-select has been switched off while Selection holds several records.
C6_Witness ==
    /\ last.ev = "toggle"
    /\ ~multi_select_mode
    /\ Len(selected_points) >= 2

-----------------------------------------------------------------------------
(* Errors in the pick handler *)

\* C7: a pick event in which a call raises is caught inside the handler and
\* leaves Selection, the marker actor list and the multi-select flag as they
\* were before the event.
C7_FailedPickLeavesState ==
    [][(last'.ev = "pick" /\ last'.failAt > 0)
         => /\ ~last'.escaped
            /\ selected_points' = selected_points
            /\ selected_point_actors' = selected_point_actors
            /\ multi_select_mode' = multi_select_mode]_vars

-----------------------------------------------------------------------------
(* The presenter *)

\* The full dump of sp: a count line, then one line per record,
\* numbered from 1.
FullDump(sp) ==
    [i \in 1..(Len(sp) + 1) |->
        IF i = 1 THEN "Selected " \o ToString(Len(sp)) \o " vertices"
        ELSE "#" \o ToString(i - 1) \o " - " \o EntryBody(sp[i - 1])]

\* C8: the overlay text of a Selection of n records shows the multi-select
\* flag, then the count n and the first min(n, 20) records in order, numbered
\* from 1, then, only when n > 20, one line counting the n - 20 others; with
\* n = 0 it shows a "no vertices selected" line instead.
C8_OverlayListsFirstTwenty ==
    LET n == Len(selected_points)
        t == text_actor.text
        k == IF n < 20 THEN n ELSE 20
    IN  /\ t[1] = (IF multi_select_mode THEN "Multi-select mode: ON"
                   ELSE "Multi-select mode: OFF")
        /\ n = 0 => t = <<t[1], "(No vertices selected)">>
        /\ n > 0 =>
             /\ Len(t) = 2 + k + (IF n > 20 THEN 1 ELSE 0)
             /\ t[2] = "Selected " \o ToString(n) \o " vertices:"
             /\ \A i \in 1..k :
                    t[2 + i] = "  #" \o ToString(i) \o " - " \o EntryBody(selected_points[i])
             /\ n > 20 => t[Len(t)] = "  (and " \o ToString(n - 20) \o " more...)"

\* A toggle has redrawn the overlay of more than 20 records: 20 entries and
\* the line for the others.
C8_Witness ==
    /\ last.ev = "toggle"
    /\ Len(selected_points) > 20
    /\ Len(text_actor.text) = 23

\* C9: after a copy event with n > 0 records, the clipboard holds the count n
\* and one entry line for every record, in Selection order, numbered 1..n.
C9_ClipboardListsAll ==
    (last.ev = "copy" /\ last.failAt = 0 /\ selected_points # <<>>)
        => /\ Len(clipboard) = Len(selected_points) + 1
           /\ clipboard = FullDump(selected_points)

\* More than 20 records have been copied.
C9_Witness ==
    /\ last.ev = "copy" /\ last.failAt = 0
    /\ Len(selected_points) > 20
    /\ Len(clipboard) > 21

\* C10: when the clipboard write raises, the copy handler does not raise: it
\* prints the failure and the whole dump, and Selection, the marker actors,
\* the multi-select flag, the overlay and the clipboard are unchanged.
C10_ClipboardFailureIsPrinted ==
    [][(last'.ev = "copy" /\ last'.failAt > 0)
         => /\ ~last'.escaped
            /\ console' = <<"Failed to copy to clipboard: ">> \o FullDump(selected_points)
            /\ selected_points' = selected_points
            /\ selected_point_actors' = selected_point_actors
            /\ multi_select_mode' = multi_select_mode
            /\ text_actor' = text_actor
            /\ plotter' = plotter
            /\ clipboard' = clipboard]_vars

\* The write of more than 20 records has failed, and the dump was printed.
C10_Witness ==
    /\ last.ev = "copy" /\ last.failAt > 0
    /\ Len(selected_points) > 20
    /\ Len(console) = Len(selected_points) + 2

-----------------------------------------------------------------------------
(* The scripted session *)

\* The vertex ids of Selection, in order.
SelectedIds == [i \in DOMAIN selected_points |-> selected_points[i].vertex_id]

\* C11: on a freshly loaded mesh of 8 vertices (Selection empty, multi-select
\* off), pick 3, toggle, pick 5, pick 3, clear give Selection [3], then [3]
\* with multi-select on, then [3, 5], then [5], then [].
C11_Scenario ==
    /\ script.k = 0 => SelectedIds = <<>> /\ ~multi_select_mode
    /\ (script.k = 1 /\ script.a = 3) => SelectedIds = <<3>> /\ ~multi_select_mode
    /\ (script.k = 2 /\ script.a = 3) => SelectedIds = <<3>> /\ multi_select_mode
    /\ (script.k = 3 /\ script.a = 3 /\ script.b = 5) => SelectedIds = <<3, 5>>
    /\ (script.k = 4 /\ script.a = 3 /\ script.b = 5) => SelectedIds = <<5>>
    /\ (script.k = 5 /\ script.a = 3 /\ script.b = 5) => SelectedIds = <<>>

\* The session that picks 3 and 5 has run to its end.
C11_Witness ==
    /\ script = [k |-> 5, a |-> 3, b |-> 5]
    /\ last.ev = "clear" /\ last.n = 1
    /\ Cardinality(DOMAIN mesh) >= 8

-----------------------------------------------------------------------------
(* Startup and exit *)

\* The mesh file cannot be loaded: no path, a reader that raises, no vertex.
BadFile(file) == ~file.exists \/ ~file.reads \/ file.n_points = 0

\* C12: each startup failure (missing path, reader raising, zero vertices)
\* ends the process with a printed message and a nonzero exit status, the
\* window never shown and no handler run; a run whose window is shown and
\* closed without error exits with status 0.
C12_StartupFailureAborts ==
    /\ (BadFile(proc.file) /\ proc.pc # "start")
         => /\ proc.pc = "exited"
            /\ proc.status > 0
            /\ proc.err # <<>>
            /\ last.ev = "init"
            /\ text_actor = None /\ plotter.texts = {}
    /\ (proc.pc = "exited" /\ proc.err = <<>> /\ console # <<"Exception: ">>)
         => proc.status = 0 /\ ~BadFile(proc.file)
    /\ proc.pc = "shown" => ~BadFile(proc.file)

\* A file that loads as a mesh of no vertex has ended the process, status 1.
C12_Witness ==
    /\ proc.pc = "exited"
    /\ proc.file = MeshFile(TRUE, TRUE, 0)
    /\ proc.status = 1

-----------------------------------------------------------------------------
(* What may change Selection *)

\* C13: the program starts with Selection empty, the marker list empty and
\* the multi-select flag off, and only pick and clear events change Selection:
\* a toggle or a copy never does.
C13_OnlyPickAndClearChangeSelection ==
    /\ selected_points = <<>>
    /\ selected_point_actors = <<>>
    /\ multi_select_mode = FALSE
    /\ [][selected_points' # selected_points => last'.ev \in {"pick", "clear"}]_vars

\* A copy has acted on a selection of two records, which are still there.
C13_Witness ==
    /\ last.ev = "copy"
    /\ last.n = 2
    /\ Len(selected_points) = 2
    /\ clipboard = VertexText(selected_points)

-----------------------------------------------------------------------------
(* The scene follows the state *)

\* The lines an overlay of at most 20 records shows for a flag and a Selection.
Rendering(mode, sp) ==
    <<"Multi-select mode: " \o (IF mode THEN "ON" ELSE "OFF")>>
    \o (IF sp = <<>> THEN <<"(No vertices selected)">>
        ELSE <<"Selected " \o ToString(Len(sp)) \o " vertices:">>
             \o [i \in 1..Len(sp) |->
                    "  #" \o ToString(i) \o " - " \o EntryBody(sp[i])])

\* C14: when no renderer call fails, after every pick, toggle or clear event
\* the overlay text shown is the rendering of the current state (the mode line
\* of the current flag, the count and the entries of the current Selection),
\* and the scene holds exactly one overlay text actor, the one the program
\* refers to.
C14_OverlayFollowsState ==
    /\ Len(selected_points) <= MAX_DISPLAY_COUNT
    /\ text_actor # None
    /\ plotter.texts = {text_actor}
    /\ Cardinality({a.h : a \in plotter.texts}) = 1
    /\ text_actor.text = Rendering(multi_select_mode, selected_points)

\* A clear has redrawn the overlay of two records with the flag on.
C14_Witness ==
    /\ last.ev = "clear" /\ last.n = 2
    /\ text_actor.text = <<"Multi-select mode: ON", "(No vertices selected)">>
    /\ Cardinality(plotter.texts) = 1

\* C15: when no renderer call fails, the marker actor list is as long as
\* Selection, its i-th marker is drawn at the i-th record's vertex position,
\* and the scene holds these markers and no other: no marker of a deselected
\* or cleared vertex remains.
C15_MarkersFollowSelection ==
    /\ Len(selected_point_actors) = Len(selected_points)
    /\ \A i \in DOMAIN selected_points :
           selected_point_actors[i].pos = selected_points[i].vertex_pos
    /\ plotter.points = Range(selected_point_actors)
    /\ Cardinality(plotter.points) = Len(selected_points)

\* A pick has deselected one of three vertices: two markers are left.
C15_Witness ==
    /\ last.ev = "pick" /\ last.n = 3 /\ last.vid # -1
    /\ Len(selected_points) = 2
    /\ Cardinality(plotter.points) = 2

-----------------------------------------------------------------------------
(* A pick that resolves no vertex *)

\* C16: a pick whose lookup gives -1 prints a message and returns, with
\* Selection, the marker actors, the multi-select flag and the overlay (the
\* text actor and the scene) unchanged; Selection is kept even with
\* multi-select off.
C16_UnresolvedPickChangesNothing ==
    [][(last'.ev = "pick" /\ last'.vid = -1)
         => /\ console' = <<"No vertex found close to the picked point.">>
            /\ ~last'.escaped
            /\ selected_points' = selected_points
            /\ selected_point_actors' = selected_point_actors
            /\ multi_select_mode' = multi_select_mode
            /\ text_actor' = text_actor
            /\ plotter' = plotter]_vars

\* An unresolved pick has left a single selection of one record in place.
C16_Witness ==
    /\ last.ev = "pick" /\ last.vid = -1 /\ last.n = 1
    /\ ~multi_select_mode
    /\ Len(selected_points) = 1
    /\ console = <<"No vertex found close to the picked point.">>

-----------------------------------------------------------------------------
(* Records and the mesh *)

\* C17: every record's vertex_id is an index of the mesh (0 <= vertex_id <
\* number of vertices) and its vertex_pos is the mesh's position at that index;
\* the mesh is the one loaded at startup, which no event changes.
C17_RecordsPointIntoMesh ==
    /\ \A i \in DOMAIN selected_points :
           /\ selected_points[i].vertex_id >= 0
           /\ selected_points[i].vertex_id < Cardinality(DOMAIN mesh)
           /\ selected_points[i].vertex_pos = mesh[selected_points[i].vertex_id]
    /\ DOMAIN mesh = 0..(NVerts - 1)
    /\ mesh = MeshPoints(NVerts)

\* A pick has added the record of the last vertex of the mesh to another one,
\* its click being off the vertex.
C17_Witness ==
    /\ last.ev = "pick" /\ last.vid = Cardinality(DOMAIN mesh) - 1
    /\ Len(selected_points) >= 2
    /\ selected_points[Len(selected_points)].vertex_id = last.vid
    /\ selected_points[Len(selected_points)].picked_point
         # selected_points[Len(selected_points)].vertex_pos

-----------------------------------------------------------------------------
(* Copying nothing *)

\* C18: a copy event with Selection empty writes nothing to the clipboard,
\* which keeps its content, prints a "no vertices selected" message, and leaves
\* Selection, the multi-select flag and the overlay unchanged.
C18_EmptyCopyKeepsClipboard ==
    [][(last'.ev = "copy" /\ selected_points = <<>>)
         => /\ clipboard' = clipboard
            /\ console' = <<"No vertices selected to copy.">>
            /\ selected_points' = <<>>
            /\ multi_select_mode' = multi_select_mode
            /\ text_actor' = text_actor
            /\ plotter' = plotter]_vars

\* A copy of an empty Selection has kept the dump an earlier copy wrote.
C18_Witness ==
    /\ last.ev = "copy" /\ last.n = 0
    /\ selected_points = <<>>
    /\ Len(clipboard) >= 2
    /\ console = <<"No vertices selected to copy.">>

-----------------------------------------------------------------------------
(* The clipboard's format against the overlay's *)

\* A copy has just written the dump of 1..20 records, all shown by the overlay.
CopiedShown ==
    /\ last.ev = "copy" /\ last.failAt = 0
    /\ Len(selected_points) \in 1..MAX_DISPLAY_COUNT

\* C19 as stated: for a Selection of at most 20 records, the clipboard text's
\* count line and each of its entry lines are identical to the overlay's count
\* line and the corresponding entry line.
C19_SameLines ==
    CopiedShown
      => /\ Len(clipboard) = Len(selected_points) + 1
         /\ Len(text_actor.text) = Len(selected_points) + 2
         /\ clipboard[1] = text_actor.text[2]
         /\ \A i \in 1..Len(selected_points) :
                clipboard[1 + i] = text_actor.text[2 + i]

\* C19, amended: for a Selection of at most 20 records, the overlay's count
\* line is the clipboard's count line followed by a colon, and each overlay
\* entry line is the corresponding clipboard entry line indented by two
\* spaces; numbering, ids and positions are the same.
C19_SameLinesButColonAndIndent ==
    CopiedShown
      => /\ Len(clipboard) = Len(selected_points) + 1
         /\ Len(text_actor.text) = Len(selected_points) + 2
         /\ text_actor.text[2] = clipboard[1] \o ":"
         /\ \A i \in 1..Len(selected_points) :
                text_actor.text[2 + i] = "  " \o clipboard[1 + i]

\* A copy has written the dump of 20 records, all of them in the overlay.
C19_Witness ==
    /\ CopiedShown
    /\ Len(selected_points) = MAX_DISPLAY_COUNT
    /\ clipboard[1] = "Selected 20 vertices"
    /\ text_actor.text[2] = "Selected 20 vertices:"

====
